---- MODULE Spec2Model ----
(***************************************************************************)
(* The polling job-claim loop of deriva-imaging-pipeline:                  *)
(* Worker.look_for_work and its WorkUnit registry                          *)
(* (src/deriva_imaging_pipeline/server.py, and the older copy in           *)
(* src/pipeline/deriva_imaging_pipeline/server.py), run by one or more     *)
(* poller processes against one shared catalog.                            *)
(*                                                                         *)
(* The catalog (deriva.core.PollingErmrestCatalog) is not part of the      *)
(* repository: state_change_once, put and the rows are modelled from the   *)
(* store contract of spec.md, sections 4.1 and 6.                          *)
(***************************************************************************)
EXTENDS Naturals, Integers, Sequences, FiniteSets, TLC

\* ------------------------------------------------------------------ bounds
NUnits == 2
NRows == 3
MaxDigits == 2

Pollers == {1, 2}
Units == 1..NUnits
Rows == 1..NRows

VARIABLES
    environ,      \* os.environ of the process: variable name -> string (a sequence of digits)
    poll_seconds, \* Worker.poll_seconds
    work_units,   \* the registry `_work_units` that main() fills: a list of WorkUnit
    running,      \* the poller processes that were started against the catalog
    status,       \* store: row -> value of its processing-status column
    holders,      \* store history: row -> pollers whose batch returned it since its last external reset
                  \* (a foreign claimant's hold shows in the row's status only)
    current,      \* store: unit -> pollers whose cached token is the unit's present version token
    pc,           \* poller -> position in blocking_poll / look_for_work
    ui,           \* poller -> index of `unit` in `for unit in cls.work_units`
    plan,         \* poller -> candidate rows read by state_change_once, claim write pending
    batch,        \* poller -> `batch` returned by state_change_once
    bi,           \* poller -> index of `row` in `for row, claim in batch`
    idle_etag,    \* poller -> unit -> unit.idle_etag
    found_work,   \* poller -> local `found_work`
    err,          \* poller -> kind of the exception `e` the handler raised for the current row
    exc,          \* poller -> kind of the exception that left look_for_work
    handled,      \* poller -> rows whose handler was invoked in this cycle, in order
    puts,         \* poller -> cls.catalog.put calls issued in this cycle, in order
    attempts,     \* poller -> unit -> state_change_once calls made in this cycle
    result        \* poller -> unit -> how the unit's claim call ended in this cycle

vars == <<environ, poll_seconds, work_units, running, status, holders, current, pc, ui, plan, batch, bi, idle_etag, found_work,
          err, exc, handled, puts, attempts, result>>

\* ------------------------------------------------------------- registry
\* Python's None: the token a fresh WorkUnit holds (`self.idle_etag = None`)
\* and a generator argument of WorkUnit.__init__ left out. ETag is a token the
\* store returned. The store issues one version token per state of a unit's
\* rows; which pollers hold the present one is the store's `current`.
Null == "None"
ETag == "etag"

\* The unit a row belongs to (the rows its get_claimable_url ranges over).
UnitOf(r) == ((r - 1) % NUnits) + 1
RowsOf(u) == {r \in Rows : UnitOf(r) = u}

\* A claim payload that leaves the status column at its claimable value.
claim_input_data_keeps_status(r) == [RID |-> r, status |-> "new"]

\* Default claim payload: lambda row: {'RID': row['RID'], status: "in progress"}.
claim_input_data(r) == [RID |-> r, status |-> "in progress"]

\* A failure payload that puts the row back to the claimable status.
failure_input_data_requeues(r, e) == [RID |-> r, status |-> "new"]

\* A failure payload whose status depends on the kind of error.
failure_input_data_by_kind(r, e) ==
    [RID |-> r, status |-> IF e = "WorkerBadDataError" THEN "in progress" ELSE "error"]

\* Default failure payload: lambda row, e: {'RID': row['RID'], status: "error"}.
failure_input_data(r, e) == [RID |-> r, status |-> "error"]

\* The handler's exception classes, and everything else derived from Exception.
Classified == {"WorkerBadDataError", "WorkerRuntimeError"}
Errors == Classified \cup {"Exception"}

\* A payload generator is a callable: the registry holds which callable it
\* is, and calling it gives the payload. The two default lambdas of
\* WorkUnit.__init__, and callables a caller may supply for a unit with a
\* status vocabulary of its own, whose failure generator reports the reason
\* of the error.
DefaultClaim == "lambda row: in progress"
DefaultFailure == "lambda row, e: error"
ClaimGenerators == {"lambda row: claimed"}
FailureGenerators == {"lambda row, e: failed: e"}

\* unit.claim_input_data(row) for the callable g.
CallClaim(g, r) ==
    IF g = DefaultClaim THEN claim_input_data(r)
    ELSE [RID |-> r, status |-> "claimed"]

\* unit.failure_input_data(row, e) for the callable g.
CallFailure(g, r, e) ==
    IF g = DefaultFailure THEN failure_input_data(r, e)
    ELSE [RID |-> r, status |-> "failed: " \o e]

\* A supplied generator is dropped for the default one.
WorkUnitIgnoresSupplied(u, c, f) ==
    [get_claimable_url |-> <<"get_claimable_url", u>>,
     put_claim_url |-> <<"put_claim_url", u>>,
     put_update_baseurl |-> <<"put_update_baseurl", u>>,
     claim_input_data |-> DefaultClaim,
     failure_input_data |-> DefaultFailure]

\* WorkUnit.__init__: the three URLs of unit u and its two payload
\* generators, each the caller's (c, f) when one is supplied and the default
\* lambda when the argument is None.
WorkUnit(u, c, f) ==
    [get_claimable_url |-> <<"get_claimable_url", u>>,
     put_claim_url |-> <<"put_claim_url", u>>,
     put_update_baseurl |-> <<"put_update_baseurl", u>>,
     claim_input_data |-> IF c = Null THEN DefaultClaim ELSE c,
     failure_input_data |-> IF f = Null THEN DefaultFailure ELSE f]

\* main(): the units are registered without payload generators.
Registry(n) == [u \in 1..n |-> WorkUnit(u, Null, Null)]

\* ---------------------------------------------------------------- store
\* A row is claimable when its status column has the value the claimable
\* query selects.
Claimable(r) == status[r] = "new"

\* The claimable rows of unit u in store state st: the result of the unit's
\* claimable query, which is what the unit's version token stands for.
ClaimableIn(st, u) == {r \in RowsOf(u) : st[r] = "new"}

\* A claimable row of unit u changed between the present store state and st
\* (it stopped being claimable, or a row became claimable), so the unit's
\* version token differs too.
Changed(st, u) == ClaimableIn(st, u) # ClaimableIn(status, u)

\* The holders of each unit's present token once the store state becomes st:
\* a unit whose rows changed has a new token that nobody holds yet.
Invalidate(st) == [u \in Units |-> IF Changed(st, u) THEN {} ELSE current[u]]

\* As Invalidate, and poller p is handed the present token of unit u.
HandOut(st, u, p) == [Invalidate(st) EXCEPT ![u] = @ \cup {p}]

\* Nothing changed in unit u since poller p's cached token was obtained.
Quiescent(p, u) == idle_etag[p][u] # Null /\ p \in current[u]

RECURSIVE SortedSeq(_)
SortedSeq(S) ==
    IF S = {} THEN <<>>
    ELSE LET m == CHOOSE x \in S : \A y \in S : x <= y
         IN <<m>> \o SortedSeq(S \ {m})

\* The candidate rows of a unit, in identifier order.
Candidates(u) == SortedSeq({r \in RowsOf(u) : Claimable(r)})

SeqSet(s) == {s[i] : i \in 1..Len(s)}

\* The store applying payloads to the rows their RID names.
ApplyAll(st, payloads) ==
    [r \in Rows |->
        IF \E w \in payloads : w.RID = r
        THEN (CHOOSE w \in payloads : w.RID = r).status
        ELSE st[r]]

\* ------------------------------------------------------------ positions
TypeOK ==
    /\ poll_seconds \in Nat
    /\ status \in [Rows -> {"new", "in progress", "error", "done", "claimed"}
                              \cup {"failed: " \o e : e \in Errors}]
    /\ holders \in [Rows -> SUBSET Pollers]
    /\ running \subseteq Pollers
    /\ Len(work_units) \in Units
    /\ current \in [Units -> SUBSET Pollers]
    /\ idle_etag \in [Pollers -> [Units -> {Null, ETag}]]
    /\ pc \in [Pollers -> {"idle", "claim", "claiming", "run", "report", "returned", "raised"}]
    /\ ui \in [Pollers -> Units]
    /\ bi \in [Pollers -> 0..NRows]
    /\ found_work \in [Pollers -> BOOLEAN]
    /\ err \in [Pollers -> Errors \cup {"none"}]
    /\ exc \in [Pollers -> Errors \cup {"none", "StoreError"}]
    /\ result \in [Pollers -> [Units -> {"none", "StoreError", "idle", "empty", "batch"}]]
    /\ attempts \in [Pollers -> [Units -> 0..1]]

\* The decimal digits an environment string is made of, and the strings the
\* poll-interval variable may be set to.
Digits == {0, 3, 7}
RECURSIVE Strings(_)
Strings(n) ==
    IF n = 0 THEN {<<>>}
    ELSE Strings(n - 1) \cup {Append(s, d) : s \in Strings(n - 1), d \in Digits}
Environments ==
    {<<>>} \cup {[DERIVA_IMAGING_POLL_SECONDS |-> s] : s \in Strings(MaxDigits) \ {<<>>}}

\* os.getenv(key, default) in environment env.
getenv(env, key, default) == IF key \in DOMAIN env THEN env[key] ELSE default

\* int(s) for a string of decimal digits.
RECURSIVE int(_)
int(s) ==
    IF s = <<>> THEN 0
    ELSE int(SubSeq(s, 1, Len(s) - 1)) * 10 + s[Len(s)]

\* The environment variable is not looked at.
PollSecondsDefault(env) == int(<<3, 0, 0>>)

\* int(os.getenv('DERIVA_IMAGING_POLL_SECONDS', '300')).
PollSeconds(env) == int(getenv(env, "DERIVA_IMAGING_POLL_SECONDS", <<3, 0, 0>>))

\* The state the pollers share and hold when they start polling, for a
\* registry ws and the set ps of pollers started in environment env.
StartIn(env, ws, ps) ==
    /\ environ = env
    /\ poll_seconds = PollSeconds(env)
    /\ work_units = ws
    /\ running = ps
    /\ status = [r \in Rows |-> "new"]
    /\ holders = [r \in Rows |-> {}]
    /\ current = [u \in Units |-> {}]
    /\ pc = [p \in Pollers |-> "idle"]
    /\ ui = [p \in Pollers |-> 1]
    /\ plan = [p \in Pollers |-> <<>>]
    /\ batch = [p \in Pollers |-> <<>>]
    /\ bi = [p \in Pollers |-> 0]
    /\ idle_etag = [p \in Pollers |-> [u \in Units |-> Null]]
    /\ found_work = [p \in Pollers |-> FALSE]
    /\ err = [p \in Pollers |-> "none"]
    /\ exc = [p \in Pollers |-> "none"]
    /\ handled = [p \in Pollers |-> <<>>]
    /\ puts = [p \in Pollers |-> <<>>]
    /\ attempts = [p \in Pollers |-> [u \in Units |-> 0]]
    /\ result = [p \in Pollers |-> [u \in Units |-> "none"]]

\* As StartIn, with the poll-interval variable not set.
Start(ws, ps) == StartIn(<<>>, ws, ps)

\* One poller and a registry of several units, among foreign claimants.
Init == Start(Registry(NUnits), {1})

\* Every poller started, with the one unit that main() registers.
InitRace == Start(Registry(1), Pollers)

\* Poller p moves to position (c, u, i) with batch b, having invoked the
\* handlers h and issued the puts w for the unit.
Goto(p, c, u, i, b, h, w) ==
    /\ pc' = [pc EXCEPT ![p] = c]
    /\ ui' = [ui EXCEPT ![p] = u]
    /\ bi' = [bi EXCEPT ![p] = i]
    /\ batch' = [batch EXCEPT ![p] = b]
    /\ handled' = [handled EXCEPT ![p] = h]
    /\ puts' = [puts EXCEPT ![p] = w]

\* The unit loop steps over every other unit of the registry.
NextUnitSkips(p, b, h, w) ==
    IF ui[p] + 1 < Len(work_units)
    THEN Goto(p, "claim", ui[p] + 2, 0, b, h, w)
    ELSE Goto(p, "returned", ui[p], 0, b, h, w)

\* `for unit in cls.work_units`: the next unit, or `return found_work`.
NextUnit(p, b, h, w) ==
    IF ui[p] < Len(work_units)
    THEN Goto(p, "claim", ui[p] + 1, 0, b, h, w)
    ELSE Goto(p, "returned", ui[p], 0, b, h, w)

\* The core acknowledges every finished pair with a success put of its own.
NextRowReportsSuccess(p, b, i, h, w) ==
    LET ack == IF i > 0
               THEN <<[url |-> work_units[ui[p]].put_claim_url,
                       json |-> [RID |-> b[i], status |-> "done"]]>>
               ELSE <<>>
    IN IF i < Len(b)
       THEN Goto(p, "run", ui[p], i + 1, b, h, w \o ack)
       ELSE NextUnit(p, b, h, w \o ack)

\* The row loop steps over every other pair of the batch.
NextRowSkipsPair(p, b, i, h, w) ==
    IF i + 1 < Len(b)
    THEN Goto(p, "run", ui[p], i + 2, b, h, w)
    ELSE NextUnit(p, b, h, w)

\* `for row, claim in batch`: the next pair of b after index i, or the next unit.
NextRow(p, b, i, h, w) ==
    IF i < Len(b)
    THEN Goto(p, "run", ui[p], i + 1, b, h, w)
    ELSE NextUnit(p, b, h, w)

\* Before the exception leaves, the failure status is written to the pairs
\* of the batch that were not reached.
RaiseFailsRest(p, e, w) ==
    /\ Goto(p, "raised", ui[p], bi[p], batch[p], handled[p],
            w \o [j \in 1..(Len(batch[p]) - bi[p]) |->
                    [url |-> work_units[ui[p]].put_claim_url,
                     json |-> CallFailure(work_units[ui[p]].failure_input_data,
                                          batch[p][bi[p] + j], e)]])
    /\ exc' = [exc EXCEPT ![p] = e]

\* The exception e leaves look_for_work.
Raise(p, e, w) ==
    /\ Goto(p, "raised", ui[p], bi[p], batch[p], handled[p], w)
    /\ exc' = [exc EXCEPT ![p] = e]

\* ------------------------------------------------------- look_for_work
\* blocking_poll calls look_for_work: `found_work = False`, first unit.
StartCycle(p) ==
    /\ pc[p] = "idle"
    /\ Goto(p, "claim", 1, 0, <<>>, <<>>, <<>>)
    /\ found_work' = [found_work EXCEPT ![p] = FALSE]
    /\ UNCHANGED <<environ, poll_seconds, work_units, running, status, holders, current, plan, idle_etag,
                   err, exc, attempts, result>>

\* The claim call's exception leaves look_for_work.
ClaimFailedPropagates(p) ==
    /\ Raise(p, "StoreError", <<>>)
    /\ UNCHANGED <<idle_etag, found_work>>

\* The failed claim call clears the unit's token.
ClaimFailedClearsToken(p) ==
    /\ NextUnit(p, <<>>, <<>>, <<>>)
    /\ idle_etag' = [idle_etag EXCEPT ![p][ui[p]] = Null]
    /\ UNCHANGED <<found_work, exc>>

\* The failed claim call leaves a fresh token behind.
ClaimFailedTakesToken(p) ==
    /\ NextUnit(p, <<>>, <<>>, <<>>)
    /\ idle_etag' = [idle_etag EXCEPT ![p][ui[p]] = ETag]
    /\ UNCHANGED <<found_work, exc>>

\* `except Exception: continue`: state_change_once raised, so the tuple
\* assignment to unit.idle_etag, batch never happened.
ClaimFailed(p) ==
    /\ NextUnit(p, <<>>, <<>>, <<>>)
    /\ UNCHANGED <<idle_etag, found_work, exc>>

\* The token is kept only together with a batch.
ClaimReturnedDropsIdleToken(p, token, b) ==
    /\ idle_etag' = [idle_etag EXCEPT ![p][ui[p]] = IF b = <<>> THEN Null ELSE token]
    /\ NextRow(p, b, 0, <<>>, <<>>)
    /\ UNCHANGED <<found_work, exc>>

\* found_work is set once the claim call returns.
ClaimReturnedFoundWork(p, token, b) ==
    /\ idle_etag' = [idle_etag EXCEPT ![p][ui[p]] = token]
    /\ found_work' = [found_work EXCEPT ![p] = TRUE]
    /\ NextRow(p, b, 0, <<>>, <<>>)
    /\ UNCHANGED exc

\* The token the call returned is dropped: the cached one stays.
ClaimReturnedKeepsToken(p, token, b) ==
    /\ NextRow(p, b, 0, <<>>, <<>>)
    /\ UNCHANGED <<idle_etag, found_work, exc>>

\* `unit.idle_etag, batch = cls.catalog.state_change_once(...)` returned
\* (token, b); then the row loop starts at b's first pair, if any.
ClaimReturned(p, token, b) ==
    /\ idle_etag' = [idle_etag EXCEPT ![p][ui[p]] = token]
    /\ NextRow(p, b, 0, <<>>, <<>>)
    /\ UNCHANGED <<found_work, exc>>

\* state_change_once, first half: the claimable query with the cached token.
\* It raises; or nothing changed since the token (empty batch, same token);
\* or no row is claimable (empty batch, fresh token); or the candidate rows
\* are read and the conditional claim write is still to come. The finished
\* unit's batch and record are dropped as the call starts.
ClaimQuery(p) ==
    /\ pc[p] = "claim"
    /\ attempts' = [attempts EXCEPT ![p][ui[p]] = @ + 1]
    /\ UNCHANGED <<environ, poll_seconds, work_units, running, status, holders, err>>
    /\ LET u == ui[p]
           token == idle_etag[p][u]
       IN \/ /\ ClaimFailed(p)
             /\ result' = [result EXCEPT ![p][u] = "StoreError"]
             /\ UNCHANGED <<plan, current>>
          \/ /\ Quiescent(p, u)
             /\ ClaimReturned(p, token, <<>>)
             /\ result' = [result EXCEPT ![p][u] = "idle"]
             /\ UNCHANGED <<plan, current>>
          \/ /\ ~Quiescent(p, u)
             /\ Candidates(u) = <<>>
             /\ current' = HandOut(status, u, p)
             /\ ClaimReturned(p, ETag, <<>>)
             /\ result' = [result EXCEPT ![p][u] = "empty"]
             /\ UNCHANGED plan
          \/ /\ ~Quiescent(p, u)
             /\ Candidates(u) # <<>>
             /\ plan' = [plan EXCEPT ![p] = Candidates(u)]
             /\ Goto(p, "claiming", u, 0, <<>>, <<>>, <<>>)
             /\ UNCHANGED <<current, idle_etag, found_work, exc, result>>

\* The rows of a plan whose state is still the one the query observed.
Unchanged(pl) == SelectSeq(pl, Claimable)

\* The batch once its rows are handed to poller p.
Hold(p, won) ==
    [r \in Rows |-> IF r \in SeqSet(won) THEN holders[r] \cup {p} ELSE holders[r]]

\* state_change_once, second half: the conditional claim write. Each planned
\* row is written with claim_input_data(row) only if its state is unchanged
\* since the query; the rows written are the batch, the token is that of the
\* state after the write. The call may instead raise, with the write applied
\* or not.
ClaimWrite(p) ==
    /\ pc[p] = "claiming"
    /\ plan' = [plan EXCEPT ![p] = <<>>]
    /\ UNCHANGED <<environ, poll_seconds, work_units, running, err, attempts>>
    /\ LET u == ui[p]
           won == Unchanged(plan[p])
           st == ApplyAll(status, {CallClaim(work_units[u].claim_input_data, r) : r \in SeqSet(won)})
       IN \/ /\ status' = st
             /\ holders' = Hold(p, won)
             /\ current' = HandOut(st, u, p)
             /\ ClaimReturned(p, ETag, won)
             /\ result' = [result EXCEPT ![p][u] = IF won = <<>> THEN "empty" ELSE "batch"]
          \/ /\ \E applied \in BOOLEAN :
                   /\ status' = IF applied THEN st ELSE status
                   /\ current' = Invalidate(status')
             /\ UNCHANGED holders
             /\ ClaimFailed(p)
             /\ result' = [result EXCEPT ![p][u] = "StoreError"]

\* What a handler invocation can do: return (having written its own success
\* status or not), or raise one of the error kinds.
Outcomes == {"return", "return done"} \cup Errors

\* found_work is set only once a handler has returned normally.
RunRowJobFoundOnReturn(p) ==
    /\ pc[p] = "run"
    /\ LET r == batch[p][bi[p]]
           h == Append(handled[p], r)
       IN \E o \in Outcomes :
             \/ /\ o = "return"
                /\ found_work' = [found_work EXCEPT ![p] = TRUE]
                /\ NextRow(p, batch[p], bi[p], h, puts[p])
                /\ UNCHANGED <<status, current, err>>
             \/ /\ o = "return done"
                /\ found_work' = [found_work EXCEPT ![p] = TRUE]
                /\ status' = [status EXCEPT ![r] = "done"]
                /\ current' = Invalidate(status')
                /\ NextRow(p, batch[p], bi[p], h, puts[p])
                /\ UNCHANGED err
             \/ /\ o \in Errors
                /\ err' = [err EXCEPT ![p] = o]
                /\ Goto(p, "report", ui[p], bi[p], batch[p], h, puts[p])
                /\ UNCHANGED <<status, current, found_work>>
    /\ UNCHANGED <<environ, poll_seconds, work_units, running, holders, plan, idle_etag, exc,
                   attempts, result>>

\* `found_work = True; handler = cls(row, unit); unit.run_row_job(handler)`
\* for the current pair of the batch. A normal return moves to the next
\* pair; an exception enters the matching except clause.
RunRowJob(p) ==
    /\ pc[p] = "run"
    /\ LET r == batch[p][bi[p]]
           h == Append(handled[p], r)
       IN /\ found_work' = [found_work EXCEPT ![p] = TRUE]
          /\ \E o \in Outcomes :
                \/ /\ o = "return"
                   /\ NextRow(p, batch[p], bi[p], h, puts[p])
                   /\ UNCHANGED <<status, current, err>>
                \/ /\ o = "return done"
                   /\ status' = [status EXCEPT ![r] = "done"]
                   /\ current' = Invalidate(status')
                   /\ NextRow(p, batch[p], bi[p], h, puts[p])
                   /\ UNCHANGED err
                \/ /\ o \in Errors
                   /\ err' = [err EXCEPT ![p] = o]
                   /\ Goto(p, "report", ui[p], bi[p], batch[p], h, puts[p])
                   /\ UNCHANGED <<status, current>>
    /\ UNCHANGED <<environ, poll_seconds, work_units, running, holders, plan, idle_etag, exc, attempts, result>>

\* The failure write goes to the unit's update URL.
FailureTargetUpdate(u) == work_units[u].put_update_baseurl

\* The URL of `cls.catalog.put(unit.put_claim_url, json=[...])`.
FailureTarget(u) == work_units[u].put_claim_url

\* The failure put names the unit's first row, whichever row failed.
FailureWritesFirstRow(u, r, e) ==
    <<[url |-> FailureTarget(u),
       json |-> CallFailure(work_units[u].failure_input_data,
                            CHOOSE x \in RowsOf(u) : \A y \in RowsOf(u) : x <= y, e)]>>

\* The runtime-error clause issues no write.
FailureWritesNotRuntime(u, r, e) ==
    IF e = "WorkerRuntimeError" THEN <<>>
    ELSE <<[url |-> FailureTarget(u), json |-> CallFailure(work_units[u].failure_input_data, r, e)]>>

\* The catalog.put calls of the except clause entered for e: each of the three
\* clauses issues one put of failure_input_data(row, e).
FailureWrites(u, r, e) ==
    <<[url |-> FailureTarget(u), json |-> CallFailure(work_units[u].failure_input_data, r, e)]>>

\* Only the `except Exception as e` clause ends with `raise`.
Reraises(e) == e \notin Classified

\* The except clause for the error the handler raised: the failure put, then
\* the next pair, or `raise` for an unclassified error. The put is not
\* guarded: when it raises, its exception leaves look_for_work.
ReportFailure(p) ==
    /\ pc[p] = "report"
    /\ LET u == ui[p]
           r == batch[p][bi[p]]
           e == err[p]
           ws == FailureWrites(u, r, e)
           w == puts[p] \o ws
       IN /\ err' = [err EXCEPT ![p] = "none"]
          /\ \/ /\ status' = ApplyAll(status, {x.json : x \in SeqSet(ws)})
                /\ current' = Invalidate(status')
                /\ IF Reraises(e)
                   THEN Raise(p, e, w)
                   ELSE NextRow(p, batch[p], bi[p], handled[p], w) /\ UNCHANGED exc
             \/ /\ ws # <<>>
                /\ UNCHANGED <<status, current>>
                /\ Raise(p, "StoreError", w)
    /\ UNCHANGED <<environ, poll_seconds, work_units, running, holders, plan, idle_etag, found_work, attempts, result>>

\* ------------------------------------------------------- blocking_poll
\* look_for_work is left: its locals are gone, and the record of what the
\* cycle did starts afresh.
LeaveCycle(p) ==
    /\ Goto(p, "idle", 1, 0, <<>>, <<>>, <<>>)
    /\ found_work' = [found_work EXCEPT ![p] = FALSE]
    /\ err' = [err EXCEPT ![p] = "none"]
    /\ exc' = [exc EXCEPT ![p] = "none"]
    /\ attempts' = [attempts EXCEPT ![p] = [u \in Units |-> 0]]
    /\ result' = [result EXCEPT ![p] = [u \in Units |-> "none"]]

\* blocking_poll returns to main after the cycle.
EndCycleReturns(p) ==
    /\ pc[p] = "returned"
    /\ UNCHANGED vars

\* The cached tokens are dropped when look_for_work returns.
EndCycleForgetsTokens(p) ==
    /\ pc[p] = "returned"
    /\ LeaveCycle(p)
    /\ idle_etag' = [idle_etag EXCEPT ![p] = [u \in Units |-> Null]]
    /\ UNCHANGED <<environ, poll_seconds, work_units, running, status, holders, current, plan>>

\* look_for_work returned; the poller waits for the next cycle.
EndCycle(p) ==
    /\ pc[p] = "returned"
    /\ LeaveCycle(p)
    /\ UNCHANGED <<environ, poll_seconds, work_units, running, status, holders, current, plan, idle_etag>>

\* look_for_work raised; the polling loop goes on with a later cycle.
AbortCycle(p) ==
    /\ pc[p] = "raised"
    /\ LeaveCycle(p)
    /\ UNCHANGED <<environ, poll_seconds, work_units, running, status, holders, current, plan, idle_etag>>

\* ----------------------------------------------------------- environment
\* An external actor re-queues a row: its status is reset to the claimable
\* value, which ends every claim held on it.
ExternalReset(r) ==
    /\ status[r] # "new"
    /\ status' = [status EXCEPT ![r] = "new"]
    /\ holders' = [holders EXCEPT ![r] = {}]
    /\ current' = Invalidate(status')
    /\ UNCHANGED <<environ, poll_seconds, work_units, running, pc, ui, plan, batch, bi, idle_etag,
                   found_work, err, exc, handled, puts, attempts, result>>

\* A foreign claimant wins a claimable row of a registered unit with its own
\* conditional claim write.
ForeignClaim(r) ==
    /\ UnitOf(r) <= Len(work_units)
    /\ Claimable(r)
    /\ status' = ApplyAll(status, {claim_input_data(r)})
    /\ current' = Invalidate(status')
    /\ UNCHANGED <<environ, poll_seconds, work_units, running, holders, pc, ui, plan, batch, bi, idle_etag,
                   found_work, err, exc, handled, puts, attempts, result>>

Next ==
    \/ \E p \in running : StartCycle(p)
    \/ \E p \in running : ClaimQuery(p)
    \/ \E p \in running : ClaimWrite(p)
    \/ \E p \in running : RunRowJob(p)
    \/ \E p \in running : ReportFailure(p)
    \/ \E p \in running : EndCycle(p)
    \/ \E p \in running : AbortCycle(p)
    \/ \E r \in Rows : ExternalReset(r)
    \/ \E r \in Rows : ForeignClaim(r)

\* One poller, several units.
Spec == Init /\ [][Next]_vars

\* Several pollers racing for the rows of one unit.
SpecRace == InitRace /\ [][Next]_vars

\* The next step of poller p's thread of control.
Step(p) ==
    /\ p \in running
    /\ \/ StartCycle(p)
       \/ ClaimQuery(p)
       \/ ClaimWrite(p)
       \/ RunRowJob(p)
       \/ ReportFailure(p)
       \/ EndCycle(p)
       \/ AbortCycle(p)

\* One poller with the one unit main() registers.
InitPoll == Start(Registry(1), {1})

\* The polling process keeps running: every store call and every handler
\* returns or raises, and the polling loop takes its next step. Nothing is
\* assumed of the environment.
SpecPoll == InitPoll /\ [][Next]_vars /\ \A p \in Pollers : WF_vars(Step(p))

\* One poller with one unit, registered by a caller that supplies each payload
\* generator or leaves it out.
InitUnits ==
    \E c \in ClaimGenerators \cup {Null}, f \in FailureGenerators \cup {Null} :
        Start(<<WorkUnit(1, c, f)>>, {1})

\* Polling with any of these registries.
SpecUnits == InitUnits /\ [][Next]_vars

\* One poller with the one unit main() registers, started in any environment.
InitEnv == \E env \in Environments : StartIn(env, Registry(1), {1})

\* Polling in any of these environments.
SpecEnv == InitEnv /\ [][Next]_vars

\* One poller that keeps running, with a registry of two units.
InitRetry == Start(Registry(2), {1})
SpecRetry == InitRetry /\ [][Next]_vars /\ \A p \in Pollers : WF_vars(Step(p))

\* ------------------------------------------------------- image_row_job
\* What `deriva_imaging_worker.processImage(rid)` can do: return a code, or
\* raise; it may have written the row's success status before a return of 0.
ProcessImageOutcomes ==
    {[raises |-> FALSE, returncode |-> c, done |-> d] : c \in 0..2, d \in BOOLEAN}
        \cup {[raises |-> TRUE, returncode |-> 0, done |-> FALSE]}

\* tiff_row_job: `except Exception` sets returncode = 1; then
\* `if returncode != 0: raise WorkerRuntimeError(...)`, else it returns.
tiff_row_job(po) ==
    LET returncode == IF po.raises THEN 1 ELSE po.returncode
    IN IF returncode # 0 THEN "WorkerRuntimeError"
       ELSE IF po.done THEN "return done" ELSE "return"

\* image_row_job delegates to tiff_row_job.
image_row_job(po) == tiff_row_job(po)

\* `found_work = True; handler = cls(row, unit); unit.run_row_job(handler)`
\* where the unit's run_row_job is image_row_job, as main registers it.
RunImageRowJob(p) ==
    /\ pc[p] = "run"
    /\ LET r == batch[p][bi[p]]
           h == Append(handled[p], r)
       IN /\ found_work' = [found_work EXCEPT ![p] = TRUE]
          /\ \E po \in ProcessImageOutcomes :
                LET o == image_row_job(po)
                IN \/ /\ o = "return"
                      /\ NextRow(p, batch[p], bi[p], h, puts[p])
                      /\ UNCHANGED <<status, current, err>>
                   \/ /\ o = "return done"
                      /\ status' = [status EXCEPT ![r] = "done"]
                      /\ current' = Invalidate(status')
                      /\ NextRow(p, batch[p], bi[p], h, puts[p])
                      /\ UNCHANGED err
                   \/ /\ o \in Errors
                      /\ err' = [err EXCEPT ![p] = o]
                      /\ Goto(p, "report", ui[p], bi[p], batch[p], h, puts[p])
                      /\ UNCHANGED <<status, current>>
    /\ UNCHANGED <<environ, poll_seconds, work_units, running, holders, plan, idle_etag, exc, attempts, result>>

\* The steps of the process main() starts: every unit's handler is
\* image_row_job.
NextImage ==
    \/ \E p \in running : StartCycle(p)
    \/ \E p \in running : ClaimQuery(p)
    \/ \E p \in running : ClaimWrite(p)
    \/ \E p \in running : RunImageRowJob(p)
    \/ \E p \in running : ReportFailure(p)
    \/ \E p \in running : EndCycle(p)
    \/ \E p \in running : AbortCycle(p)
    \/ \E r \in Rows : ExternalReset(r)
    \/ \E r \in Rows : ForeignClaim(r)

\* One poller with the one unit and the handler main() registers.
SpecImage == InitPoll /\ [][NextImage]_vars

\* ------------------------ look_for_work of pipeline/deriva_imaging_pipeline
\* The older copy of the worker, run against the same registry and store.
\* `found_work = False`, then the first unit of `for unit in cls.work_units`.
PipelineStartCycle(p) ==
    /\ pc[p] = "idle"
    /\ Goto(p, "claim", 1, 0, <<>>, <<>>, <<>>)
    /\ found_work' = [found_work EXCEPT ![p] = FALSE]
    /\ UNCHANGED <<environ, poll_seconds, work_units, running, status, holders, current, plan, idle_etag,
                   err, exc, attempts, result>>

\* `except: continue`: the bare clause catches whatever state_change_once
\* raised; the tuple assignment never happened.
PipelineClaimFailed(p) ==
    /\ NextUnit(p, <<>>, <<>>, <<>>)
    /\ UNCHANGED <<idle_etag, found_work, exc>>

\* `unit.idle_etag, batch = cls.catalog.state_change_once(...)` returned
\* (token, b); `for row, claim in batch` starts.
PipelineClaimReturned(p, token, b) ==
    /\ idle_etag' = [idle_etag EXCEPT ![p][ui[p]] = token]
    /\ NextRow(p, b, 0, <<>>, <<>>)
    /\ UNCHANGED <<found_work, exc>>

\* The claim call of the older copy, first half: the same four arguments go
\* to the same store.
PipelineClaimQuery(p) ==
    /\ pc[p] = "claim"
    /\ attempts' = [attempts EXCEPT ![p][ui[p]] = @ + 1]
    /\ UNCHANGED <<environ, poll_seconds, work_units, running, status, holders, err>>
    /\ LET u == ui[p]
           token == idle_etag[p][u]
       IN \/ /\ PipelineClaimFailed(p)
             /\ result' = [result EXCEPT ![p][u] = "StoreError"]
             /\ UNCHANGED <<plan, current>>
          \/ /\ Quiescent(p, u)
             /\ PipelineClaimReturned(p, token, <<>>)
             /\ result' = [result EXCEPT ![p][u] = "idle"]
             /\ UNCHANGED <<plan, current>>
          \/ /\ ~Quiescent(p, u)
             /\ Candidates(u) = <<>>
             /\ current' = HandOut(status, u, p)
             /\ PipelineClaimReturned(p, ETag, <<>>)
             /\ result' = [result EXCEPT ![p][u] = "empty"]
             /\ UNCHANGED plan
          \/ /\ ~Quiescent(p, u)
             /\ Candidates(u) # <<>>
             /\ plan' = [plan EXCEPT ![p] = Candidates(u)]
             /\ Goto(p, "claiming", u, 0, <<>>, <<>>, <<>>)
             /\ UNCHANGED <<current, idle_etag, found_work, exc, result>>

\* The claim call of the older copy, second half.
PipelineClaimWrite(p) ==
    /\ pc[p] = "claiming"
    /\ plan' = [plan EXCEPT ![p] = <<>>]
    /\ UNCHANGED <<environ, poll_seconds, work_units, running, err, attempts>>
    /\ LET u == ui[p]
           won == Unchanged(plan[p])
           st == ApplyAll(status, {CallClaim(work_units[u].claim_input_data, r) : r \in SeqSet(won)})
       IN \/ /\ status' = st
             /\ holders' = Hold(p, won)
             /\ current' = HandOut(st, u, p)
             /\ PipelineClaimReturned(p, ETag, won)
             /\ result' = [result EXCEPT ![p][u] = IF won = <<>> THEN "empty" ELSE "batch"]
          \/ /\ \E applied \in BOOLEAN :
                   /\ status' = IF applied THEN st ELSE status
                   /\ current' = Invalidate(status')
             /\ UNCHANGED holders
             /\ PipelineClaimFailed(p)
             /\ result' = [result EXCEPT ![p][u] = "StoreError"]

\* `found_work = True; handler = cls(row, unit); unit.run_row_job(handler)`
\* in the older copy.
PipelineRunRowJob(p) ==
    /\ pc[p] = "run"
    /\ LET r == batch[p][bi[p]]
           h == Append(handled[p], r)
       IN /\ found_work' = [found_work EXCEPT ![p] = TRUE]
          /\ \E o \in Outcomes :
                \/ /\ o \in {"return", "return done"}
                   /\ status' = IF o = "return done" THEN [status EXCEPT ![r] = "done"] ELSE status
                   /\ current' = Invalidate(status')
                   /\ NextRow(p, batch[p], bi[p], h, puts[p])
                   /\ UNCHANGED err
                \/ /\ o \in Errors
                   /\ err' = [err EXCEPT ![p] = o]
                   /\ Goto(p, "report", ui[p], bi[p], batch[p], h, puts[p])
                   /\ UNCHANGED <<status, current>>
    /\ UNCHANGED <<environ, poll_seconds, work_units, running, holders, plan, idle_etag, exc, attempts, result>>

\* The older copy's three except clauses: each puts
\* failure_input_data(row, e) to unit.put_claim_url.
PipelineFailureWrites(u, r, e) ==
    CASE e = "WorkerBadDataError" ->
            <<[url |-> work_units[u].put_claim_url,
               json |-> CallFailure(work_units[u].failure_input_data, r, e)]>>
      [] e = "WorkerRuntimeError" ->
            <<[url |-> work_units[u].put_claim_url,
               json |-> CallFailure(work_units[u].failure_input_data, r, e)]>>
      [] OTHER ->
            <<[url |-> work_units[u].put_claim_url,
               json |-> CallFailure(work_units[u].failure_input_data, r, e)]>>

\* Only the older copy's `except Exception as e` clause ends with `raise`.
PipelineReraises(e) == e \notin {"WorkerBadDataError", "WorkerRuntimeError"}

\* The except clause the older copy enters for the handler's error.
PipelineReportFailure(p) ==
    /\ pc[p] = "report"
    /\ LET u == ui[p]
           r == batch[p][bi[p]]
           e == err[p]
           ws == PipelineFailureWrites(u, r, e)
           w == puts[p] \o ws
       IN /\ err' = [err EXCEPT ![p] = "none"]
          /\ \/ /\ status' = ApplyAll(status, {x.json : x \in SeqSet(ws)})
                /\ current' = Invalidate(status')
                /\ IF PipelineReraises(e)
                   THEN Raise(p, e, w)
                   ELSE NextRow(p, batch[p], bi[p], handled[p], w) /\ UNCHANGED exc
             \/ /\ UNCHANGED <<status, current>>
                /\ Raise(p, "StoreError", w)
    /\ UNCHANGED <<environ, poll_seconds, work_units, running, holders, plan, idle_etag, found_work, attempts, result>>

\* The next step of poller p when it runs the older copy's look_for_work.
PipelineStep(p) ==
    /\ p \in running
    /\ \/ PipelineStartCycle(p)
       \/ PipelineClaimQuery(p)
       \/ PipelineClaimWrite(p)
       \/ PipelineRunRowJob(p)
       \/ PipelineReportFailure(p)
       \/ EndCycle(p)
       \/ AbortCycle(p)

\* Either copy takes the poller's next step.
NextBoth ==
    \/ \E p \in running : StartCycle(p)
    \/ \E p \in running : ClaimQuery(p)
    \/ \E p \in running : ClaimWrite(p)
    \/ \E p \in running : RunRowJob(p)
    \/ \E p \in running : ReportFailure(p)
    \/ \E p \in running : PipelineStartCycle(p)
    \/ \E p \in running : PipelineClaimQuery(p)
    \/ \E p \in running : PipelineClaimWrite(p)
    \/ \E p \in running : PipelineRunRowJob(p)
    \/ \E p \in running : PipelineReportFailure(p)
    \/ \E p \in running : EndCycle(p)
    \/ \E p \in running : AbortCycle(p)
    \/ \E r \in Rows : ExternalReset(r)
    \/ \E r \in Rows : ForeignClaim(r)

\* One poller with two units; at every point either copy of look_for_work
\* may take the step, from the same state and with the same store.
SpecBoth == InitRetry /\ [][NextBoth]_vars

\* ================================================================ claims
\* The claim call of poller p for unit u raised in this step.
ClaimRaised(p, u) == result[p][u] # "StoreError" /\ result'[p][u] = "StoreError"

\* Poller p left the except clause of its current row in this step.
Reported(p) == pc[p] = "report" /\ pc'[p] # "report"

\* C1: whatever the interleaving of the pollers' claim attempts, a row is in
\* the returned batch of at most one claimant until it is reset externally.
C1_AtMostOneClaim ==
    \A r \in Rows : Cardinality(holders[r]) <= 1

\* C1 witness: a poller's conditional claim write is pending for a row that
\* another poller, which read the same candidates, has meanwhile been handed.
C1_Witness ==
    \E p \in running, q \in running :
        /\ p # q
        /\ pc[p] = "claiming"
        /\ pc[q] = "run"
        /\ \E i \in 1..Len(plan[p]) :
              /\ plan[p][i] \in SeqSet(batch[q])
              /\ holders[plan[p][i]] = {q}

\* C2: when the claim call of unit A raises, no exception leaves
\* look_for_work and the loop goes on with the claim call of the unit
\* registered after A (or returns, when A is the last); a cycle that returns
\* has made a claim call for every registered unit.
C2_ClaimErrorIsolated ==
    /\ [][\A p \in Pollers, u \in Units :
            ClaimRaised(p, u) =>
                /\ exc'[p] = "none"
                /\ IF u < Len(work_units)
                   THEN pc'[p] = "claim" /\ ui'[p] = u + 1
                   ELSE pc'[p] = "returned"]_vars
    /\ [](\A p \in Pollers :
            pc[p] = "returned" => \A u \in 1..Len(work_units) : attempts[p][u] = 1)

\* C2 witness: the cycle returned after the first unit's claim call raised
\* and every row of the second unit's batch was handled.
C2_Witness ==
    \E p \in running :
        /\ pc[p] = "returned"
        /\ result[p][1] = "StoreError"
        /\ result[p][2] = "batch"
        /\ handled[p] = batch[p]
        /\ batch[p] # <<>>

\* C3: the step in which the claim call of unit Z raises leaves every cached
\* token of the poller as it was, issues no put and invokes no handler for Z,
\* and does not touch found_work.
C3_ClaimErrorFrame ==
    [][\A p \in Pollers, u \in Units :
          ClaimRaised(p, u) =>
              /\ idle_etag'[p] = idle_etag[p]
              /\ puts'[p] = <<>>
              /\ handled'[p] = <<>>
              /\ batch'[p] = <<>>
              /\ found_work'[p] = found_work[p]]_vars

\* C3 witness: a claim call raised for a unit whose token from an earlier
\* cycle is still cached.
C3_Witness ==
    \E p \in running, u \in Units :
        result[p][u] = "StoreError" /\ idle_etag[p][u] = ETag

\* C4 (as claimed): after a classified handler error for a row, the loop goes
\* on with the next row of the batch or the next unit; no exception leaves
\* look_for_work.
C4_RowErrorIsolated ==
    [][\A p \in Pollers :
          Reported(p) /\ err[p] \in Classified =>
              IF bi[p] < Len(batch[p])
              THEN pc'[p] = "run" /\ bi'[p] = bi[p] + 1
              ELSE pc'[p] \in {"claim", "returned"}]_vars

\* C5: a handler error always enters the except clause, and the clause is
\* left only by a step that issues exactly one put carrying
\* failure_input_data(row, error) for that row, with no handler invoked in
\* between; no row has two failure puts in a cycle.
C5_OneFailureWrite ==
    /\ [][\A p \in Pollers :
            /\ (pc[p] = "run" /\ err'[p] # "none") =>
                    pc'[p] = "report" /\ puts'[p] = puts[p]
            /\ Reported(p) =>
                    /\ Len(puts'[p]) = Len(puts[p]) + 1
                    /\ SubSeq(puts'[p], 1, Len(puts[p])) = puts[p]
                    /\ puts'[p][Len(puts'[p])].json
                          = failure_input_data(batch[p][bi[p]], err[p])
                    /\ handled'[p] = handled[p]]_vars
    /\ [](\A p \in Pollers : \A i \in 1..Len(puts[p]) : \A j \in 1..Len(puts[p]) :
            puts[p][i].json.RID = puts[p][j].json.RID => i = j)

\* C5 witness: the first row's failure put was issued and the second row's
\* handler is about to be invoked.
C5_Witness ==
    \E p \in running :
        /\ pc[p] = "run"
        /\ bi[p] = 2
        /\ Len(puts[p]) = 1
        /\ puts[p][1].json = failure_input_data(batch[p][1], "WorkerRuntimeError")

\* C6 (as claimed): after an unclassified handler error, one failure put is
\* issued and then that same error leaves look_for_work.
C6_UnclassifiedPropagates ==
    [][\A p \in Pollers :
          Reported(p) /\ err[p] = "Exception" =>
              /\ Len(puts'[p]) = Len(puts[p]) + 1
              /\ pc'[p] = "raised"
              /\ exc'[p] = "Exception"]_vars

\* C7 (as claimed): the only exception that ever leaves look_for_work is an
\* unclassified handler error; an error of the failure put is not escalated.
C7_OnlyUnclassifiedLeaves ==
    \A p \in Pollers : exc[p] \in {"none", "Exception"}

C11_TokenNullAfterError ==
    \A p \in Pollers, u \in Units :
        result[p][u] = "StoreError" => idle_etag[p][u] = Null

\* C11 (amended): after a claim call for a unit has ended in an error, the
\* unit's cached token is the one it had before the call: null if it was
\* null, the earlier token otherwise.
C11_TokenRetainedAfterError ==
    [][\A p \in Pollers, u \in Units :
          ClaimRaised(p, u) => idle_etag'[p][u] = idle_etag[p][u]]_vars

\* C11 witness: the conditional claim write of a unit raised while the
\* poller held a token of that unit that the store has meanwhile replaced;
\* the stale token is still cached.
C11_Witness ==
    \E p \in running, u \in Units :
        /\ result[p][u] = "StoreError"
        /\ idle_etag[p][u] = ETag
        /\ p \notin current[u]
        /\ pc[p] \in {"claim", "returned"}


\* C12: a row is handled at most once in a cycle; a row enters a poller's
\* batch only from the claimable status, so a row left "in progress" or with
\* the failure status is never claimed again while it stays so; the only
\* step that makes a row claimable is an external reset, which is no step of
\* any poller; and no payload the core writes carries the claimable status.
C12_FailedRowStaysClaimed ==
    /\ [][\A r \in Rows :
            /\ \A p \in Pollers :
                  r \in SeqSet(batch'[p]) /\ r \notin SeqSet(batch[p]) => Claimable(r)
            /\ \A p \in Pollers :
                  Len(handled'[p]) > Len(handled[p]) /\ handled'[p][Len(handled'[p])] = r =>
                      /\ r \in SeqSet(batch[p])
                      /\ r \notin SeqSet(handled[p])
            /\ (~Claimable(r) /\ status'[r] = "new") =>
                  /\ pc' = pc
                  /\ puts' = puts
                  /\ holders'[r] = {}]_vars
    /\ [](\A p \in Pollers : \A i \in 1..Len(puts[p]) : puts[p][i].json.status # "new")
    /\ [](\A r \in Rows : holders[r] # {} => ~Claimable(r))

\* C12 witness: a row whose handler failed in an earlier cycle still has the
\* failure status, and its claimant is handling a batch of a later cycle
\* that contains another row of the same unit.
C12_Witness ==
    \E p \in running : \E r \in Rows :
        /\ status[r] = "error"
        /\ holders[r] = {p}
        /\ pc[p] = "run"
        /\ ui[p] = UnitOf(r)
        /\ r \notin SeqSet(batch[p])


\* The handler poller p invoked for its current pair returned normally in
\* this step.
Returned(p) == pc[p] = "run" /\ handled'[p] # handled[p] /\ err'[p] = "none"

\* C13: the step in which the handler of a claimed row returns normally
\* issues no put and changes no token; the only change of the store in it is
\* the success status the handler itself may have written to its own row,
\* and a success status never appears in the store in any other step.
C13_NormalReturnFrame ==
    [][/\ \A p \in Pollers :
            Returned(p) =>
                /\ puts'[p] = puts[p]
                /\ idle_etag' = idle_etag
                /\ \A r \in Rows :
                      status'[r] # status[r] =>
                          r = batch[p][bi[p]] /\ status'[r] = "done"
       /\ \A r \in Rows :
            status'[r] = "done" /\ status[r] # "done" =>
                \E p \in Pollers : Returned(p) /\ r = batch[p][bi[p]]]_vars

\* C13 witness: the handler of the unit's first pair returned normally
\* without writing: the row still has the claimed status and the core has
\* issued no put for the unit.
C13_Witness ==
    \E p \in running :
        /\ pc[p] \in {"run", "claim", "returned"}
        /\ handled[p] # <<>>
        /\ (pc[p] = "run" => bi[p] > 1)
        /\ puts[p] = <<>>
        /\ holders[handled[p][1]] = {p}
        /\ status[handled[p][1]] = "in progress"


\* The pairs of poller p's batch that the row loop has gone through.
Reached(p) ==
    CASE pc[p] = "run" -> SubSeq(batch[p], 1, bi[p] - 1)
      [] pc[p] \in {"report", "raised"} -> SubSeq(batch[p], 1, bi[p])
      [] OTHER -> batch[p]

\* C14: the handlers invoked for a unit in a cycle are exactly the pairs of
\* the batch reached so far, one invocation each and in the batch's order;
\* no pair occurs twice; and each invocation is for the pair the row loop is
\* at, a row of the unit being visited.
C14_HandledOnceInOrder ==
    /\ [](\A p \in Pollers :
            /\ handled[p] = Reached(p)
            /\ \A i \in 1..Len(batch[p]) : \A j \in 1..Len(batch[p]) :
                  batch[p][i] = batch[p][j] => i = j)
    /\ [][\A p \in Pollers :
            handled'[p] # handled[p] /\ handled'[p] # <<>> =>
                /\ pc[p] = "run"
                /\ handled'[p] = Append(handled[p], batch[p][bi[p]])
                /\ UnitOf(batch[p][bi[p]]) = ui[p]]_vars

\* C14 witness: a batch of two pairs was handled to its end, the first pair
\* before the second.
C14_Witness ==
    \E p \in running :
        /\ pc[p] \in {"claim", "returned"}
        /\ Len(batch[p]) = 2
        /\ handled[p] = <<batch[p][1], batch[p][2]>>


\* Poller p comes to the claim call of a unit in this step.
EntersClaim(p) == pc'[p] = "claim" /\ (pc[p] # "claim" \/ ui'[p] # ui[p])

\* C15: a poller comes to the claim call of the first unit only from idle,
\* and to that of any other unit only from the unit registered just before
\* it, once every pair of that unit's batch has been handled and no failure
\* put is outstanding; while the poller is at unit u of a cycle, exactly the
\* units before u have had their claim call; a claim call, a handler and a
\* failure put are never in progress together; and a cycle is left only
\* after it returned or raised.
C15_SequentialInOrder ==
    /\ [][\A p \in Pollers :
            /\ EntersClaim(p) =>
                  IF pc[p] = "idle"
                  THEN ui'[p] = 1
                  ELSE /\ pc[p] \in {"claim", "claiming", "run", "report"}
                       /\ ui'[p] = ui[p] + 1
                       /\ handled'[p] = batch'[p]
                       /\ err'[p] = "none"
                       /\ plan'[p] = <<>>
            /\ (pc'[p] = "idle" /\ pc[p] # "idle") => pc[p] \in {"returned", "raised"}
            /\ (pc'[p] = "returned" /\ pc[p] # "returned") =>
                  ui[p] = Len(work_units) /\ handled'[p] = batch'[p]]_vars
    /\ [](\A p \in Pollers :
            /\ pc[p] = "claim" =>
                  \A u \in 1..Len(work_units) :
                      attempts[p][u] = IF u < ui[p] THEN 1 ELSE 0
            /\ pc[p] \in {"claiming", "run", "report"} =>
                  \A u \in 1..Len(work_units) :
                      attempts[p][u] = IF u <= ui[p] THEN 1 ELSE 0
            /\ plan[p] # <<>> => pc[p] = "claiming" /\ batch[p] = <<>>
            /\ err[p] # "none" => pc[p] = "report"
            /\ pc[p] = "idle" => \A u \in Units : attempts[p][u] = 0)

\* C15 witness: the poller is at the claim call of the second unit after a
\* batch of the first unit that was handled to its end, its last pair with a
\* failure put.
C15_Witness ==
    \E p \in running :
        /\ pc[p] = "claim"
        /\ ui[p] = 2
        /\ Len(batch[p]) >= 2
        /\ handled[p] = batch[p]
        /\ puts[p] # <<>>
        /\ puts[p][Len(puts[p])].json.RID = batch[p][Len(batch[p])]


C18_FailureReportIdempotent ==
    [][\A p \in Pollers :
          Reported(p) /\ exc'[p] # "StoreError" =>
              LET r == batch[p][bi[p]]
              IN /\ status'[r] = failure_input_data(r, err[p]).status
                 /\ status[r] = "error" => status' = status]_vars

\* C18 witness: two pollers each reported a failure for the same row (it was
\* re-queued and claimed again while its first claimant was still at work),
\* neither put raised, and the row has the failure status.
C18_Witness ==
    \E p \in running, q \in running : \E r \in Rows :
        /\ p # q
        /\ status[r] = "error"
        /\ pc[p] # "raised"
        /\ pc[q] # "raised"
        /\ \E i \in 1..Len(puts[p]) : puts[p][i].json.RID = r
        /\ \E j \in 1..Len(puts[q]) : puts[q][j].json.RID = r


\* C19: a unit built without a claim (failure) generator has one that gives,
\* for every row (and error), the payload of that row's own RID with the
\* status "in progress" ("error"); a unit built with a generator has exactly
\* that generator; and every failure put a poller issued carries what the
\* generator its unit was built with gives for a row the poller handled.
C19_PayloadGenerators ==
    /\ \A u \in Units :
       \A c \in ClaimGenerators \cup {Null}, f \in FailureGenerators \cup {Null} :
            LET w == WorkUnit(u, c, f)
            IN /\ c = Null =>
                    \A r \in Rows :
                        CallClaim(w.claim_input_data, r)
                            = [RID |-> r, status |-> "in progress"]
               /\ c # Null => w.claim_input_data = c
               /\ f = Null =>
                    \A r \in Rows, e \in Errors :
                        CallFailure(w.failure_input_data, r, e)
                            = [RID |-> r, status |-> "error"]
               /\ f # Null => w.failure_input_data = f
    /\ \A p \in Pollers : \A i \in 1..Len(puts[p]) :
       \A c \in ClaimGenerators \cup {Null}, f \in FailureGenerators \cup {Null} :
            work_units[ui[p]] = WorkUnit(ui[p], c, f) =>
                \E r \in SeqSet(handled[p]), e \in Errors :
                    puts[p][i].json =
                        IF f = Null THEN [RID |-> r, status |-> "error"]
                        ELSE CallFailure(f, r, e)

\* C19 witness: a unit built with the default claim generator and a supplied
\* failure generator: a row claimed for it became "in progress", and the
\* failure put for another carries the supplied generator's payload.
C19_Witness ==
    \E p \in running : \E f \in FailureGenerators :
        /\ work_units[1] = WorkUnit(1, Null, f)
        /\ Len(puts[p]) = 2
        /\ puts[p][1].json = CallFailure(f, batch[p][1], "WorkerBadDataError")
        /\ status[batch[p][1]] = "failed: WorkerBadDataError"
        /\ status[batch[p][2]] = "in progress"
        /\ pc[p] = "raised"

\* C20 (as claimed): the failure put issued for a handler error leaves the
\* row with the status "failed: reason", where reason is the error that the
\* handler raised.
C20_FailureStatusCarriesReason ==
    [][\A p \in Pollers :
          Reported(p) /\ exc'[p] # "StoreError" =>
              status'[batch[p][bi[p]]] = "failed: " \o err[p]]_vars


\* The decimal value of a string of digits, digit by digit.
RECURSIVE Pow10(_)
Pow10(n) == IF n = 0 THEN 1 ELSE 10 * Pow10(n - 1)
IsValueOf(n, s) ==
    /\ n < Pow10(Len(s))
    /\ \A i \in 1..Len(s) : (n \div Pow10(Len(s) - i)) % 10 = s[i]

\* C21: the poll interval is the integer value of DERIVA_IMAGING_POLL_SECONDS
\* when the variable is set and 300 otherwise, and no step changes it.
C21_PollInterval ==
    /\ [](IF "DERIVA_IMAGING_POLL_SECONDS" \in DOMAIN environ
          THEN IsValueOf(poll_seconds, environ["DERIVA_IMAGING_POLL_SECONDS"])
          ELSE poll_seconds = 300)
    /\ [][poll_seconds' = poll_seconds /\ environ' = environ]_vars

\* C21 witness: a poller started with the variable set to "37" has finished a
\* cycle that claimed rows, and its interval is 37.
C21_Witness ==
    \E p \in running :
        /\ "DERIVA_IMAGING_POLL_SECONDS" \in DOMAIN environ
        /\ environ["DERIVA_IMAGING_POLL_SECONDS"] = <<3, 7>>
        /\ poll_seconds = 37
        /\ pc[p] = "returned"
        /\ found_work[p]


\* The claim call of poller p for unit u returned in this step.
ClaimSucceeded(p, u) ==
    result[p][u] = "none" /\ result'[p][u] \in {"idle", "empty", "batch"}

\* C22 (as claimed): every cycle, however it ends, has made exactly one claim
\* call for every registered unit.
C22_OneClaimCallPerUnitEveryCycle ==
    \A p \in Pollers :
        pc[p] \in {"returned", "raised"} =>
            \A u \in 1..Len(work_units) : attempts[p][u] = 1

\* C22 (amended): a cycle makes at most one claim call per unit, and exactly
\* one for every unit when it returns normally; every token is null at the
\* start and is replaced only by the unit's own claim call returning, with
\* the token that call returned, so the token passed is null before the
\* first successful call and the most recently returned one after it; after
\* a successful call the cached token is the store's present token of the
\* unit, whether the batch is empty or not.
C22_OneClaimCallTokenPassed ==
    /\ \A p \in Pollers, u \in Units : idle_etag[p][u] = Null
    /\ [](\A p \in Pollers :
            /\ \A u \in Units : attempts[p][u] <= 1
            /\ pc[p] = "returned" => \A u \in 1..Len(work_units) : attempts[p][u] = 1)
    /\ [][\A p \in Pollers, u \in Units :
            /\ idle_etag'[p][u] # idle_etag[p][u] =>
                  ClaimSucceeded(p, u) /\ ui[p] = u /\ idle_etag'[p][u] = ETag
            /\ ClaimSucceeded(p, u) =>
                  /\ idle_etag'[p][u] = ETag
                  /\ p \in current'[u]
                  /\ attempts'[p][u] = 1]_vars

\* C22 witness: a cycle returned after one claim call per unit; the call for
\* the first unit, made with a token the store had replaced, returned an
\* empty batch and the present token.
C22_Witness ==
    \E p \in running :
        /\ pc[p] = "returned"
        /\ \A u \in 1..Len(work_units) : attempts[p][u] = 1
        /\ result[p][1] = "empty"
        /\ idle_etag[p][1] = ETag
        /\ p \in current[1]
        /\ \E r \in RowsOf(1) : holders[r] = {p}


\* C23: a step changes the cached token of a unit only when it is the claim
\* call of that poller for that very unit; a handler invocation or a failure
\* put leaves every token of the poller as it was; and no step changes the
\* registry: its units, their order, URLs and payload generators.
C23_TokenAndRegistryFrame ==
    [][/\ \A p \in Pollers, u \in Units :
            idle_etag'[p][u] # idle_etag[p][u] =>
                pc[p] \in {"claim", "claiming"} /\ ui[p] = u
       /\ \A p \in Pollers :
            pc[p] \in {"run", "report"} => idle_etag'[p] = idle_etag[p]
       /\ work_units' = work_units]_vars

\* C23 witness: the poller is in the except clause of a row of the second
\* unit while it holds the tokens that this cycle's claim calls for the
\* first and the second unit returned.
C23_Witness ==
    \E p \in running :
        /\ pc[p] = "report"
        /\ ui[p] = 2
        /\ result[p][1] \in {"empty", "batch"}
        /\ idle_etag[p][1] = ETag
        /\ idle_etag[p][2] = ETag
        /\ Len(work_units) >= 2


\* C24: when look_for_work returns, found_work is True exactly when the claim
\* call of some unit returned a non-empty batch in the cycle, whatever the
\* handlers of the claimed rows did.
C24_FoundWorkIffBatch ==
    \A p \in Pollers :
        pc[p] = "returned" =>
            (found_work[p] <=> \E u \in 1..Len(work_units) : result[p][u] = "batch")

\* C24 witness: look_for_work returns True after a cycle whose only batch was
\* that of the last unit, every handler of which failed with a classified
\* error.
C24_Witness ==
    \E p \in running :
        /\ pc[p] = "returned"
        /\ found_work[p]
        /\ \A u \in 1..Len(work_units) : result[p][u] = "batch" <=> u = Len(work_units)
        /\ Len(puts[p]) = Len(batch[p])
        /\ \A i \in 1..Len(puts[p]) : puts[p][i].json.RID = batch[p][i]


\* Poller p is about to make this cycle's claim call for unit u.
AtClaim(p, u) == pc[p] = "claim" /\ ui[p] = u /\ result[p][u] = "none"

C26_ImageJobNeverAborts ==
    \A p \in Pollers :
        /\ err[p] \in {"none", "WorkerRuntimeError"}
        /\ pc[p] # "raised"


\* The rows of poller p's batch whose handler is running or still to run.
Pending(p) ==
    IF pc[p] \in {"run", "report"}
    THEN {batch[p][j] : j \in bi[p]..Len(batch[p])}
    ELSE {}

\* C27: when an exception leaves look_for_work at row k of a batch, no
\* handler was invoked and no failure write issued for the rows after k, and
\* each of them still has the status the claim call wrote unless it was reset
\* externally since; a row the poller was handed and is no longer working on
\* is not handled by it again before such a reset, which is the only step
\* that ends the poller's claim on it.
C27_RestOfBatchStaysClaimed ==
    /\ [](\A p \in Pollers :
            pc[p] = "raised" =>
                \A j \in (bi[p] + 1)..Len(batch[p]) :
                    LET r == batch[p][j]
                    IN /\ r \notin SeqSet(handled[p])
                       /\ \A i \in 1..Len(puts[p]) : puts[p][i].json.RID # r
                       /\ p \in holders[r] =>
                             status[r] = CallClaim(work_units[ui[p]].claim_input_data, r).status)
    /\ [][\A p \in Pollers, r \in Rows :
            /\ (p \in holders[r] /\ r \notin Pending(p)) => r \notin Pending(p)'
            /\ (p \in holders[r] /\ p \notin holders'[r]) =>
                  /\ Claimable(r)'
                  /\ <<pc, batch, bi, handled, puts>>' = <<pc, batch, bi, handled, puts>>]_vars

\* C27 witness: the failure put for the first row of a batch of two has
\* raised, or its handler raised an unclassified error; the second row is
\* still claimed by the poller.
C27_Witness ==
    \E p \in running :
        /\ pc[p] = "raised"
        /\ exc[p] # "none"
        /\ bi[p] = 1
        /\ Len(batch[p]) = 2
        /\ holders[batch[p][2]] = {p}
        /\ status[batch[p][2]] = "in progress"


\* C29: the rows whose handler a poller has invoked for the unit it is at,
\* and the rows its failure writes name, are rows of the batch its own claim
\* call for that unit returned in this cycle; that batch is set only by the
\* poller's own conditional claim write, to the rows that write claimed for
\* it, which are rows of that unit; and it is dropped when the cycle ends.
C29_OnlyOwnBatch ==
    /\ [](\A p \in Pollers :
            /\ SeqSet(handled[p]) \subseteq SeqSet(batch[p])
            /\ \A i \in 1..Len(puts[p]) :
                  /\ puts[p][i].json.RID \in SeqSet(handled[p])
                  /\ puts[p][i].url = work_units[UnitOf(puts[p][i].json.RID)].put_claim_url
            /\ pc[p] \in {"run", "report", "raised"} =>
                  \A r \in SeqSet(batch[p]) : UnitOf(r) = ui[p]
            /\ pc[p] = "idle" => batch[p] = <<>>)
    /\ [][\A p \in Pollers :
            batch'[p] # batch[p] /\ batch'[p] # <<>> =>
                /\ pc[p] = "claiming"
                /\ result[p][ui[p]] = "none"
                /\ result'[p][ui[p]] = "batch"
                /\ \A r \in SeqSet(batch'[p]) :
                      /\ r \in SeqSet(plan[p])
                      /\ Claimable(r)
                      /\ p \in holders'[r]
                      /\ status'[r] = CallClaim(work_units[ui[p]].claim_input_data, r).status]_vars

\* C29 witness: two pollers each issued a failure write for a row of their
\* own batch, the second after the row was reset and claimed anew.
C29_Witness ==
    \E p \in running, q \in running :
        /\ p # q
        /\ puts[p] # <<>>
        /\ puts[q] # <<>>
        /\ puts[q][1].json.RID = puts[p][1].json.RID
        /\ holders[puts[q][1].json.RID] = {q}


\* C30: from any state the two copies of look_for_work can be in, with the
\* same registry, store response and handler outcome, a step of one copy is a
\* step of the other: the same claim call and token passed, the same handler
\* invocation, the same writes, the same cached tokens, and the same return
\* value or exception.
C30_CopiesEquivalent ==
    [][\A p \in Pollers : Step(p) <=> PipelineStep(p)]_vars

\* C30 witness: a cycle aborted at the second unit after the claim call of
\* the first unit raised: the token of the first unit is still null, the
\* second unit's handler raised an unclassified error and the failure write
\* was issued before the exception left.
C30_Witness ==
    \E p \in running :
        /\ pc[p] = "raised"
        /\ ui[p] = 2
        /\ exc[p] = "Exception"
        /\ result[p][1] = "StoreError"
        /\ idle_etag[p][1] = Null
        /\ idle_etag[p][2] = ETag
        /\ found_work[p]
        /\ Len(puts[p]) = 1

====
